---- MODULE Spec2Model ----
(***************************************************************************)
(* Model of the TicTacToe component of src/tic-tac-toe.tsx.                *)
(*                                                                         *)
(* The component keeps one state object, gameState, and replaces it with   *)
(* setGameState.  Every handler (makeMove, resetGame, ...) is a closure of *)
(* the render that created it: it reads the gameState of THAT render.  A   *)
(* cell click runs the makeMove of the latest render; the setTimeout       *)
(* callback scheduled by makeAIMove runs getBestMove and makeMove of the   *)
(* render in which the effect ran, 500 ms later, whatever happened in      *)
(* between.  The queue `timers` holds the gameState captured by each       *)
(* pending callback; equal delays make the callbacks fire in FIFO order.   *)
(* races and moves are history variables: the user events handled while a  *)
(* callback was pending, and the makeMove calls that changed gameState     *)
(* since the board was last emptied.                                       *)
(***************************************************************************)
EXTENDS Integers, Sequences, FiniteSets, TLC

VARIABLES gameState, timers, races, moves, testBoard, result

vars == <<gameState, timers, races, moves, testBoard, result>>

\* ---- bounds of the model ------------------------------------------------
MaxGames == 2          \* finished matches counted in scores at any time
MaxRaces == 1          \* user events handled while a timer is pending

\* ---- types (lines 9-18) -------------------------------------------------
Null == "null"
Mark == {"X", "O"}
Player == Mark \cup {Null}
GameMode == {"pvp", "ai"}
Cells == 0..8

WINNING_COMBINATIONS ==
  << <<0, 1, 2>>, <<3, 4, 5>>, <<6, 7, 8>>,
     <<0, 3, 6>>, <<1, 4, 7>>, <<2, 5, 8>>,
     <<0, 4, 8>>, <<2, 4, 6>> >>

EmptyBoard == [c \in Cells |-> Null]

InitialState ==
  [ board |-> EmptyBoard,
    currentPlayer |-> "X",
    winner |-> Null,
    gameMode |-> "pvp",
    scores |-> [X |-> 0, O |-> 0, ties |-> 0] ]

\* ---- checkWinner (lines 40-54) ------------------------------------------
\* The for-loop returns at the first combination, in list order, whose
\* three cells hold the same non-null mark.
MatchingCombinations(board) ==
  { k \in 1..Len(WINNING_COMBINATIONS) :
      LET a == WINNING_COMBINATIONS[k][1]
          b == WINNING_COMBINATIONS[k][2]
          c == WINNING_COMBINATIONS[k][3]
      IN  board[a] /= Null /\ board[a] = board[b] /\ board[a] = board[c] }

\* checkWinner with the tie test placed before the loop
checkWinner_tieFirst(board) ==
  LET hits == MatchingCombinations(board)
  IN  IF \A cell \in Cells : board[cell] /= Null
        THEN "tie"
        ELSE IF hits /= {}
               THEN LET k == CHOOSE h \in hits : \A g \in hits : h <= g
                    IN  board[WINNING_COMBINATIONS[k][1]]
               ELSE Null

checkWinner(board) ==
  LET hits == MatchingCombinations(board)
  IN  IF hits /= {}
        THEN LET k == CHOOSE h \in hits : \A g \in hits : h <= g
             IN  board[WINNING_COMBINATIONS[k][1]]
        ELSE IF \A cell \in Cells : board[cell] /= Null
               THEN "tie"
               ELSE Null

\* ---- makeMove (lines 56-77) ---------------------------------------------
\* closure: the gameState of the render that created this makeMove;
\* prev: the state the setGameState updater is applied to.
scoreKey(winner) == IF winner = "tie" THEN "ties" ELSE winner

\* the early return without the test of winner
makeMoveReturns_ignoresWinner(closure, index) ==
  closure.board[index] /= Null

\* line 57: the early return
makeMoveReturns(closure, index) ==
  closure.board[index] /= Null \/ closure.winner /= Null

\* makeMove with checkWinner applied to the board before the move
makeMove_winnerOfOldBoard(closure, index, prev) ==
  LET newBoard == [closure.board EXCEPT ![index] = closure.currentPlayer]
      winner == checkWinner(closure.board)
      nextPlayer == IF closure.currentPlayer = "X" THEN "O" ELSE "X"
  IN  [ prev EXCEPT
          !.board = newBoard,
          !.currentPlayer = IF winner /= Null THEN prev.currentPlayer
                                              ELSE nextPlayer,
          !.winner = winner,
          !.scores = IF winner /= Null
                       THEN [prev.scores EXCEPT ![scoreKey(winner)] = @ + 1]
                       ELSE prev.scores ]

\* lines 59-76: the state produced by the setGameState updater
makeMove(closure, index, prev) ==
  LET newBoard == [closure.board EXCEPT ![index] = closure.currentPlayer]
      winner == checkWinner(newBoard)
      nextPlayer == IF closure.currentPlayer = "X" THEN "O" ELSE "X"
  IN  [ prev EXCEPT
          !.board = newBoard,
          !.currentPlayer = IF winner /= Null THEN prev.currentPlayer
                                              ELSE nextPlayer,
          !.winner = winner,
          !.scores = IF winner /= Null
                       THEN [prev.scores EXCEPT ![scoreKey(winner)] = @ + 1]
                       ELSE prev.scores ]

\* ---- makeAIMove (lines 80-122) ------------------------------------------
availableMoves(board) == { index \in Cells : board[index] = Null }

FirstOf(candidates) ==
  CHOOSE m \in candidates : \A n \in candidates : m <= n

\* getBestMove with the blocking loop placed before the winning loop
getBestMove_blockFirst(board) ==
  LET avail == availableMoves(board)
      wins == { move \in avail :
                  checkWinner([board EXCEPT ![move] = "O"]) = "O" }
      blocks == { move \in avail :
                  checkWinner([board EXCEPT ![move] = "X"]) = "X" }
      corners == { i \in {0, 2, 6, 8} : i \in avail }
  IN  IF blocks /= {} THEN {FirstOf(blocks)}
      ELSE IF wins /= {} THEN {FirstOf(wins)}
      ELSE IF 4 \in avail THEN {4}
      ELSE IF corners /= {} THEN corners
      ELSE avail

\* getBestMove (lines 90-116): the set of values it can return for the
\* board of its closure; the two Math.random draws pick any element.
getBestMove(board) ==
  LET avail == availableMoves(board)
      wins == { move \in avail :
                  checkWinner([board EXCEPT ![move] = "O"]) = "O" }
      blocks == { move \in avail :
                  checkWinner([board EXCEPT ![move] = "X"]) = "X" }
      corners == { i \in {0, 2, 6, 8} : i \in avail }
  IN  IF wins /= {} THEN {FirstOf(wins)}
      ELSE IF blocks /= {} THEN {FirstOf(blocks)}
      ELSE IF 4 \in avail THEN {4}
      ELSE IF corners /= {} THEN corners
      ELSE avail

\* The closure captured by the setTimeout callback.  `stale` is a history
\* field, not program state: it records that resetGame or switchGameMode
\* ran after the callback was scheduled.
Closure(gs) ==
  [ board |-> gs.board, currentPlayer |-> gs.currentPlayer,
    winner |-> gs.winner, stale |-> FALSE ]

makeAIMove(gs, queue) ==
  IF gs.winner /= Null \/ gs.currentPlayer = "X" THEN queue
  ELSE IF availableMoves(gs.board) = {} THEN queue
  ELSE Append(queue, Closure(gs))

\* ---- useEffect (lines 125-129) ------------------------------------------
\* useEffect whose dependency list lacks gameState.currentPlayer
useEffect_withoutPlayerDep(old, new, queue) ==
  IF /\ <<old.gameMode, old.winner>> /= <<new.gameMode, new.winner>>
     /\ new.gameMode = "ai" /\ new.currentPlayer = "O" /\ new.winner = Null
    THEN makeAIMove(new, queue)
    ELSE queue

\* Runs after a render whose dependencies differ from the previous render's.
useEffect(old, new, queue) ==
  IF /\ <<old.currentPlayer, old.gameMode, old.winner>>
          /= <<new.currentPlayer, new.gameMode, new.winner>>
     /\ new.gameMode = "ai" /\ new.currentPlayer = "O" /\ new.winner = Null
    THEN makeAIMove(new, queue)
    ELSE queue

MarkStale(queue) == [k \in 1..Len(queue) |-> [queue[k] EXCEPT !.stale = TRUE]]

\* Each pending callback may still end a game and add to scores: the bound
\* counts it, so that a callback is never kept from firing.
ScoresWithinBound(gs, queue) ==
  gs.scores.X + gs.scores.O + gs.scores.ties + Len(queue) <= MaxGames

\* Commit a render: the new state, then the effect of that render.
Commit(new, queue) ==
  /\ ScoresWithinBound(new, useEffect(gameState, new, queue))
  /\ gameState' = new
  /\ timers' = useEffect(gameState, new, queue)
  /\ UNCHANGED <<testBoard, result>>

\* A render caused by a user event.  races counts the user events of the
\* session that were handled within the 500 ms delay of a pending timer.
RaceCounted ==
  /\ timers /= <<>> => races < MaxRaces
  /\ races' = IF timers /= <<>> THEN races + 1 ELSE races

\* moves after a makeMove call that produced the state new
MoveCounted(new) ==
  moves' = IF new /= gameState THEN moves + 1 ELSE moves

\* ---- operations ---------------------------------------------------------
\* onClick of a cell button (line 256): makeMove of the latest render.  A
\* disabled button (line 257) delivers no click, and makeMove returns early
\* on the same condition.
cellClicked(index) ==
  IF makeMoveReturns(gameState, index)
    THEN UNCHANGED vars
    ELSE /\ RaceCounted
         /\ MoveCounted(makeMove(gameState, index, gameState))
         /\ Commit(makeMove(gameState, index, gameState), timers)

\* the setTimeout callback (lines 118-121) of the oldest pending timer:
\* makeMove(aiMove) of the render that scheduled it
timerCallback(aiMove) ==
  IF makeMoveReturns(Head(timers), aiMove)
    THEN /\ timers' = Tail(timers)
         /\ UNCHANGED <<gameState, moves, testBoard, result>>
    ELSE /\ MoveCounted(makeMove(Head(timers), aiMove, gameState))
         /\ Commit(makeMove(Head(timers), aiMove, gameState), Tail(timers))

\* the callback ran with getBestMove() = aiMove
aiMoveApplied(aiMove) ==
  /\ timers /= <<>>
  /\ UNCHANGED races
  /\ aiMove \in getBestMove(Head(timers).board)
  /\ timerCallback(aiMove)

timerFired ==
  /\ timers /= <<>>
  /\ UNCHANGED races
  /\ \E aiMove \in getBestMove(Head(timers).board) : timerCallback(aiMove)

\* resetGame that also replaces scores by the initial scores
resetGame_clearsScores ==
  /\ RaceCounted
  /\ moves' = 0
  /\ Commit([gameState EXCEPT !.board = EmptyBoard,
                              !.currentPlayer = "X",
                              !.winner = Null,
                              !.scores = [X |-> 0, O |-> 0, ties |-> 0]],
            MarkStale(timers))

\* resetGame that leaves currentPlayer as it was
resetGame_keepsPlayer ==
  /\ RaceCounted
  /\ moves' = 0
  /\ Commit([gameState EXCEPT !.board = EmptyBoard,
                              !.winner = Null],
            MarkStale(timers))

resetGame ==
  /\ RaceCounted
  /\ moves' = 0
  /\ Commit([gameState EXCEPT !.board = EmptyBoard,
                              !.currentPlayer = "X",
                              !.winner = Null],
            MarkStale(timers))

\* resetScores that also behaves like resetGame
resetScores_resetsBoard ==
  /\ RaceCounted
  /\ moves' = 0
  /\ Commit([gameState EXCEPT !.scores = [X |-> 0, O |-> 0, ties |-> 0],
                              !.board = EmptyBoard,
                              !.currentPlayer = "X",
                              !.winner = Null],
            timers)

resetScores ==
  /\ RaceCounted
  /\ UNCHANGED moves
  /\ Commit([gameState EXCEPT !.scores = [X |-> 0, O |-> 0, ties |-> 0]],
            timers)

\* switchGameMode that replaces scores by the initial scores
switchGameMode_clearsScores(mode) ==
  /\ RaceCounted
  /\ moves' = 0
  /\ Commit([gameState EXCEPT !.gameMode = mode,
                              !.board = EmptyBoard,
                              !.currentPlayer = "X",
                              !.winner = Null,
                              !.scores = [X |-> 0, O |-> 0, ties |-> 0]],
            MarkStale(timers))

switchGameMode(mode) ==
  /\ RaceCounted
  /\ moves' = 0
  /\ Commit([gameState EXCEPT !.gameMode = mode,
                              !.board = EmptyBoard,
                              !.currentPlayer = "X",
                              !.winner = Null],
            MarkStale(timers))

Init ==
  /\ gameState = InitialState
  /\ timers = <<>>
  /\ races = 0
  /\ moves = 0
  /\ testBoard = EmptyBoard
  /\ result = <<>>

Next ==
  \/ \E index \in Cells : cellClicked(index)
  \/ timerFired
  \/ resetGame
  \/ resetScores
  \/ \E mode \in GameMode : switchGameMode(mode)

Spec == Init /\ [][Next]_vars

\* A pending callback can always run: the step timerFired is enabled
\* exactly when a timer is pending.
TimerPending == timers /= <<>>

TimerFiredEnabledIffPending == (ENABLED <<timerFired>>_vars) <=> TimerPending

\* A scheduled setTimeout callback is always run in the end: weak fairness
\* of timerFired, WF_vars(timerFired), written out with TimerPending in the
\* place of ENABLED <<timerFired>>_vars.
SpecFair ==
  Spec /\ ([]<>(~TimerPending) \/ []<><<timerFired>>_vars)

\* ---- the pure functions on arbitrary boards ------------------------------
AllBoards == [Cells -> Player]

evaluateBoard ==
  /\ result = <<>>
  /\ result' = <<"outcome", checkWinner(testBoard)>>
  /\ UNCHANGED <<gameState, timers, races, moves, testBoard>>

\* getBestMove is only called with a board that has no winner and an empty
\* cell (lines 81 and 87).
chooseMove ==
  /\ result = <<>>
  /\ checkWinner(testBoard) = Null
  /\ \E move \in getBestMove(testBoard) : result' = <<"move", move>>
  /\ UNCHANGED <<gameState, timers, races, moves, testBoard>>

InitFn ==
  /\ gameState = InitialState
  /\ timers = <<>>
  /\ races = 0
  /\ moves = 0
  /\ testBoard \in AllBoards
  /\ result = <<>>

NextFn == evaluateBoard \/ chooseMove

SpecFn == InitFn /\ [][NextFn]_vars

TypeOK ==
  /\ gameState.board \in [Cells -> Player]
  /\ gameState.currentPlayer \in Mark
  /\ gameState.winner \in Player \cup {"tie"}
  /\ gameState.gameMode \in GameMode
  /\ races \in 0..MaxRaces
\* ---- vocabulary of the properties -----------------------------------------
\* The eight winning triples as sets of cells: rows, columns, diagonals.
Lines ==
  { {3 * r, 3 * r + 1, 3 * r + 2} : r \in 0..2 }
    \cup { {col, col + 3, col + 6} : col \in 0..2 }
    \cup { {0, 4, 8}, {2, 4, 6} }

HasLine(board, mark) == \E L \in Lines : \A cell \in L : board[cell] = mark

IsFull(board) == \A cell \in Cells : board[cell] /= Null

Terminal(gs) == gs.winner /= Null

\* some makeMove(index) call ran in this step, from a click or from a timer
MoveAttempt(index) == cellClicked(index) \/ aiMoveApplied(index)

\* C1: once the outcome is terminal, every makeMove call, from a cell click
\* or from the deferred AI move, leaves gameState unchanged.
C1_TerminalIsAbsorbing ==
  [][ (Terminal(gameState) /\ \E index \in Cells : MoveAttempt(index))
        => gameState' = gameState ]_vars

\* C2: a deferred AI move that fires after resetGame or switchGameMode ran
\* changes no field of gameState.
C2_StaleMoveIsDropped ==
  [][ (timers /= <<>> /\ Head(timers).stale /\ timerFired)
        => gameState' = gameState ]_vars

\* C3: the scores change only by adding exactly 1 to the counter of the
\* outcome in the step that makes the outcome terminal; a step that starts
\* in progress and stays so, or starts terminal, adds nothing (resetScores
\* apart).
C3_ScoreOncePerTerminalTransition ==
  [][ ~resetScores =>
        IF ~Terminal(gameState) /\ Terminal(gameState')
          THEN gameState'.scores =
                 [gameState.scores EXCEPT ![scoreKey(gameState'.winner)] = @ + 1]
          ELSE gameState'.scores = gameState.scores ]_vars

\* ---- checkWinner on every board (SpecFn) --------------------------------
Outcome == result[2]

Evaluated == result /= <<>> /\ result[1] = "outcome"

\* the mark of the first completed combination, in the order of
\* WINNING_COMBINATIONS
FirstCompleted(board, mark) ==
  \E k \in 1..Len(WINNING_COMBINATIONS) :
    /\ \A n \in 1..3 : board[WINNING_COMBINATIONS[k][n]] = mark
    /\ \A j \in 1..(k - 1) :
         \A other \in Mark \ {mark} :
           \E n \in 1..3 : board[WINNING_COMBINATIONS[j][n]] /= other

C5_WinnerIsCheckWinnerOfBoard ==
  gameState.winner = checkWinner(gameState.board)

\* a deferred AI move, fired after a user event raced it, ended the game
C5_Witness ==
  /\ gameState.winner = "O"
  /\ gameState.gameMode = "ai"
  /\ races > 0
  /\ timers = <<>>

\* C6: a makeMove call on a cell that is not empty changes nothing, however
\* often it is repeated.
C6_OccupiedCellRejected ==
  [][ \A index \in Cells :
        (gameState.board[index] /= Null /\ MoveAttempt(index))
          => gameState' = gameState ]_vars

\* C7: every move that is applied and leaves the game in progress writes
\* the mark of currentPlayer and flips currentPlayer.
C7_TurnsAlternate ==
  [][ \A index \in Cells :
        (MoveAttempt(index) /\ gameState' /= gameState
           /\ ~Terminal(gameState'))
          => /\ gameState'.board[index] = gameState.currentPlayer
             /\ gameState'.currentPlayer /= gameState.currentPlayer ]_vars

\* C8: in "ai" mode, while it is O's turn and the game is in progress, a
\* cell click changes nothing.
C8_HumanCannotPlayForAI ==
  [][ ( /\ gameState.gameMode = "ai"
        /\ gameState.currentPlayer = "O"
        /\ ~Terminal(gameState)
        /\ \E index \in Cells : cellClicked(index) )
        => gameState' = gameState ]_vars

\* ---- getBestMove on every in-progress board (SpecFn) --------------------
Chosen == result /= <<>> /\ result[1] = "move"

Completes(board, cell, mark) ==
  \E L \in Lines : cell \in L /\ \A other \in L \ {cell} : board[other] = mark

Lowest(cells) == CHOOSE c \in cells : \A d \in cells : c <= d

\* C9: the move chosen for O is the lowest empty cell completing an O line,
\* else the lowest empty cell completing an X line, else 4 if empty, else
\* an empty corner if any, else any empty cell; always an empty cell 0..8.
C9_HeuristicPriority ==
  Chosen =>
    LET move == result[2]
        empty == { c \in Cells : testBoard[c] = Null }
        winning == { c \in empty : Completes(testBoard, c, "O") }
        blocking == { c \in empty : Completes(testBoard, c, "X") }
        corners == empty \cap {0, 2, 6, 8}
    IN  /\ move \in empty
        /\ IF winning /= {} THEN move = Lowest(winning)
           ELSE IF blocking /= {} THEN move = Lowest(blocking)
           ELSE IF 4 \in empty THEN move = 4
           ELSE IF corners /= {} THEN move \in corners
           ELSE TRUE

\* the board [O,O,_,X,X,_,_,_,_]: winning at 2 and blocking at 5 are both
\* possible, and 2 was chosen
C9_Witness ==
  /\ Chosen
  /\ testBoard = [c \in Cells |-> IF c \in {0, 1} THEN "O"
                                  ELSE IF c \in {3, 4} THEN "X" ELSE Null]
  /\ result[2] = 2

\* C10: resetGame empties the board, sets currentPlayer to X and winner to
\* null, and leaves scores and gameMode as they were.
C10_ResetGameEffect ==
  [][ resetGame =>
        /\ gameState'.board = [c \in Cells |-> Null]
        /\ gameState'.currentPlayer = "X"
        /\ gameState'.winner = Null
        /\ gameState'.scores = gameState.scores
        /\ gameState'.gameMode = gameState.gameMode ]_vars

\* a new game after a finished match in "ai" mode: the score is kept
C10_Witness ==
  /\ gameState.board = EmptyBoard
  /\ gameState.currentPlayer = "X"
  /\ gameState.winner = Null
  /\ gameState.gameMode = "ai"
  /\ gameState.scores.O = 1
  /\ gameState.scores.ties = 1

\* C11: resetScores sets the three counters to 0 and leaves board,
\* currentPlayer, winner and gameMode as they were.
C11_ResetScoresEffect ==
  [][ resetScores =>
        /\ gameState'.scores = [X |-> 0, O |-> 0, ties |-> 0]
        /\ gameState'.board = gameState.board
        /\ gameState'.currentPlayer = gameState.currentPlayer
        /\ gameState'.winner = gameState.winner
        /\ gameState'.gameMode = gameState.gameMode ]_vars

\* a finished game whose scores are all 0: the scores were reset after the
\* game ended, and the board and the winner stayed
C11_Witness ==
  /\ gameState.winner = "X"
  /\ HasLine(gameState.board, "X")
  /\ gameState.scores = [X |-> 0, O |-> 0, ties |-> 0]

\* C12: switchGameMode(m) sets gameMode to m, empties the board, sets
\* currentPlayer to X and winner to null and keeps the scores; and no step
\* other than resetScores decreases a counter.
C12_SwitchModeEffectAndScoresMonotone ==
  [][ /\ \A mode \in GameMode :
           switchGameMode(mode) =>
             /\ gameState'.gameMode = mode
             /\ gameState'.board = [c \in Cells |-> Null]
             /\ gameState'.currentPlayer = "X"
             /\ gameState'.winner = Null
             /\ gameState'.scores = gameState.scores
      /\ ~resetScores =>
           /\ gameState'.scores.X >= gameState.scores.X
           /\ gameState'.scores.O >= gameState.scores.O
           /\ gameState'.scores.ties >= gameState.scores.ties ]_vars

\* the mode was switched to "pvp" with a score won against the AI kept, and
\* a deferred AI move was still pending
C12_Witness ==
  /\ gameState.gameMode = "pvp"
  /\ gameState.board = EmptyBoard
  /\ gameState.scores.O = 1
  /\ timers /= <<>>
  /\ Head(timers).stale

\* the number of cells of a board holding a mark
Count(board, mark) == Cardinality({ c \in Cells : board[c] = mark })

\* some makeMove call changed gameState in this step
MoveApplied(index) == MoveAttempt(index) /\ gameState' /= gameState

\* C13: every state change caused by a move (a click or the deferred AI
\* move) turns exactly one empty cell into the mover's mark and leaves the
\* other eight cells as they were.
C13_BoardOnlyGrows ==
  [][ \A index \in Cells :
        MoveApplied(index) =>
          /\ gameState.board[index] = Null
          /\ gameState'.board[index] \in Mark
          /\ \A other \in Cells \ {index} :
               gameState'.board[other] = gameState.board[other] ]_vars

\* C15: with a winner m recorded, currentPlayer is m.
C15_WinnerIsCurrentPlayer ==
  gameState.winner \in Mark => gameState.currentPlayer = gameState.winner

\* C16: no reachable board holds a completed triple of X and one of O.
C16_NoDoubleWinner ==
  ~(HasLine(gameState.board, "X") /\ HasLine(gameState.board, "O"))

\* a board with a completed triple, put there by a deferred AI move that
\* fired after a user event raced it
C16_Witness ==
  /\ HasLine(gameState.board, "O")
  /\ Count(gameState.board, "X") >= 3
  /\ races > 0
  /\ timers = <<>>

\* C17: X has as many marks as O or one more, and while the game is in
\* progress it is X's turn exactly when the counts are equal.
C17_MarkCountsMatchTurn ==
  LET x == Count(gameState.board, "X")
      o == Count(gameState.board, "O")
  IN  /\ x - o \in {0, 1}
      /\ ~Terminal(gameState) => (gameState.currentPlayer = "X" <=> x = o)

\* a game in progress whose board was written by a deferred AI move after
\* the board had been reset: X to move with one mark each
C17_Witness ==
  /\ ~Terminal(gameState)
  /\ gameState.currentPlayer = "X"
  /\ Count(gameState.board, "X") = 1
  /\ Count(gameState.board, "O") = 1
  /\ races > 0
  /\ timers = <<>>

\* ---- the deferred AI move is applied (SpecFair) --------------------------
AITurn ==
  /\ gameState.gameMode = "ai"
  /\ gameState.currentPlayer = "O"
  /\ ~Terminal(gameState)

\* C14: in "ai" mode, while the game is in progress with O to move, an AI
\* move is pending; the game does not stay in that state for ever; and it
\* leaves that state with X to move or with the game ended.
C14_AIMoveEventuallyApplied ==
  /\ [](AITurn => timers /= <<>>)
  /\ [][ (AITurn /\ ~AITurn') =>
           (gameState'.currentPlayer = "X" \/ Terminal(gameState')) ]_vars
  /\ []<>(~AITurn)

\* the AI answered X's first move and no user event raced it
C14_Witness ==
  /\ gameState.gameMode = "ai"
  /\ gameState.currentPlayer = "X"
  /\ ~Terminal(gameState)
  /\ Count(gameState.board, "X") = 1
  /\ Count(gameState.board, "O") = 1
  /\ races = 0
  /\ timers = <<>>

\* C18: since the board was last emptied at most 9 moves were applied, and
\* a board without an empty cell has a terminal outcome.
C18_AtMostNineMoves ==
  /\ moves <= 9
  /\ IsFull(gameState.board) => Terminal(gameState)
====
